---- MODULE Spec2Model ----
(***************************************************************************)
(* did:key codec of dvjn/did-key-go: base58-btc, multibase, unsigned       *)
(* varint multicodec, key-type registry and the Encode / Decode pipeline.  *)
(*                                                                         *)
(* Bytes are integers 0..255, byte slices and strings are sequences (a     *)
(* string is a sequence of one-character strings), a uint64 is a function  *)
(* from bit position 0..63 to {0,1}.                                       *)
(***************************************************************************)
EXTENDS Integers, Sequences, FiniteSets, TLC

----------------------------------------------------------------------------
(* Strings *)

\* HasPrefix comparing only as many characters as s has
HasPrefixUpToLen(s, prefix) ==
    \A i \in 1..Len(prefix) : i <= Len(s) => s[i] = prefix[i]

\* strings.HasPrefix(s, prefix)
HasPrefix(s, prefix) ==
    /\ Len(s) >= Len(prefix)
    /\ SubSeq(s, 1, Len(prefix)) = prefix

\* s[n:]
SliceFrom(s, n) == SubSeq(s, n + 1, Len(s))

Base58BTCAlphabet ==
    << "1","2","3","4","5","6","7","8","9",
       "A","B","C","D","E","F","G","H","J","K","L","M","N","P","Q","R","S",
       "T","U","V","W","X","Y","Z",
       "a","b","c","d","e","f","g","h","i","j","k","m","n","o","p","q","r",
       "s","t","u","v","w","x","y","z" >>

MultibaseBase58BTCPrefix == << "z" >>

\* the prefix without the method name
DIDPrefixOnly == << "d","i","d",":" >>

DIDKeyPrefix == << "d","i","d",":","k","e","y",":" >>

\* strings.IndexRune(Base58BTCAlphabet, char): 0-based index, -1 when absent
IndexRune(alphabet, char) ==
    IF \E i \in 1..Len(alphabet) : alphabet[i] = char
    THEN (CHOOSE i \in 1..Len(alphabet) : alphabet[i] = char) - 1
    ELSE -1

----------------------------------------------------------------------------
(* Base58-btc *)
(*                                                                         *)
(* The loops of the two functions run over up to 98 bytes and 134 digits.  *)
(* Each loop is written as an operator that runs a range of its iterations *)
(* in order, first half then second half, so that the evaluation depth is  *)
(* logarithmic in the number of iterations; the iterations themselves are  *)
(* the loop bodies of the source.                                          *)

\* the loop "for i := 0; i < len(data) && data[i] == v; i++ { n++ }"
CountLeading(data, v) ==
    CHOOSE n \in 0..Len(data) :
        /\ \A i \in 1..n : data[i] = v
        /\ n = Len(data) \/ data[n + 1] # v

\* "for i := 0; i < n; i++ { s = append([]T{v}, s...) }"
Prepend(n, v, s) == [i \in 1..n |-> v] \o s

\* iterations lo .. hi-1 of "for i := 0; i < len(num); i++ { ... }", entered
\* with the given remainder: the bytes written to num[lo:hi] and the remainder
\* left (num[i] is read before it is written, and only in iteration i)
RECURSIVE DivideRange(_, _, _, _, _)
DivideRange(num, base, lo, hi, remainder) ==
    IF hi - lo <= 0 THEN [num |-> << >>, remainder |-> remainder]
    ELSE IF hi - lo = 1
    THEN LET temp == remainder * 256 + num[lo + 1]
         IN  [num |-> << (temp \div base) % 256 >>, remainder |-> temp % base]
    ELSE LET mid   == (lo + hi) \div 2
             left  == DivideRange(num, base, lo, mid, remainder)
             right == DivideRange(num, base, mid, hi, left.remainder)
         IN  [num |-> left.num \o right.num, remainder |-> right.remainder]

\* inner loop of encodeBase58BTC: one in-place long division of num by base
DivideByBase(num, base) == DivideRange(num, base, 0, Len(num), 0)

\* "for len(num) > 0 && num[0] == 0 { num = num[1:] }"
TrimLeadingZeros(num) == SubSeq(num, CountLeading(num, 0) + 1, Len(num))

\* body of the outer loop of encodeBase58BTC
\* the step with the new digit put behind the digits found so far
EncodeStepAppended(st) ==
    LET d == DivideByBase(st.num, Len(Base58BTCAlphabet))
    IN  [num |-> TrimLeadingZeros(d.num),
         encoded |-> st.encoded \o << Base58BTCAlphabet[d.remainder + 1] >>]

EncodeStep(st) ==
    LET d == DivideByBase(st.num, Len(Base58BTCAlphabet))
    IN  [num     |-> TrimLeadingZeros(d.num),
         encoded |-> << Base58BTCAlphabet[d.remainder + 1] >> \o st.encoded]

\* the next n iterations of "for len(num) > 0 { ... }", fewer when num runs out
RECURSIVE EncodeDigits(_, _)
EncodeDigits(st, n) ==
    IF Len(st.num) = 0 \/ n = 0 THEN st
    ELSE IF n = 1 THEN EncodeStep(st)
    ELSE EncodeDigits(EncodeDigits(st, n \div 2), n - n \div 2)

\* the loop ends within 2 * len(data) iterations: every iteration divides num
\* by 58 and 58 * 58 > 256
encodeBase58BTC(data) ==
    IF Len(data) = 0
    THEN << >>
    ELSE LET leadingZeros == CountLeading(data, 0)
             encoded      == EncodeDigits([num |-> data, encoded |-> << >>],
                                          2 * Len(data)).encoded
         IN  Prepend(leadingZeros, Base58BTCAlphabet[1], encoded)

Reverse(s) == [i \in 1..Len(s) |-> s[Len(s) + 1 - i]]

\* iterations hi-1 down to lo of
\* "for i := len(decoded)-1; i >= 0; i-- { carry += decoded[i]*base; ... }",
\* entered with the given carry: the bytes written to decoded[lo:hi], in the
\* order they are written (last index first), and the carry left
RECURSIVE MultiplyRange(_, _, _, _, _)
MultiplyRange(decoded, base, lo, hi, carry) ==
    IF hi - lo <= 0 THEN [written |-> << >>, carry |-> carry]
    ELSE IF hi - lo = 1
    THEN LET c == carry + decoded[lo + 1] * base
         IN  [written |-> << c % 256 >>, carry |-> c \div 256]
    ELSE LET mid   == (lo + hi) \div 2
             right == MultiplyRange(decoded, base, mid, hi, carry)
             left  == MultiplyRange(decoded, base, lo, mid, right.carry)
         IN  [written |-> right.written \o left.written, carry |-> left.carry]

MultiplyAdd(decoded, base, carry) ==
    LET r == MultiplyRange(decoded, base, 0, Len(decoded), carry)
    IN  [decoded |-> Reverse(r.written), carry |-> r.carry]

\* "for carry > 0 { decoded = append([]byte{byte(carry % 256)}, decoded...) }"
RECURSIVE GrowByCarry(_, _)
GrowByCarry(decoded, carry) ==
    IF carry > 0
    THEN GrowByCarry(<< carry % 256 >> \o decoded, carry \div 256)
    ELSE decoded

ErrInvalidBase58Character == << "invalid character in base58 string" >>

\* the loop body skipping a character that is not in the alphabet
DecodeStepSkipInvalid(st, char) ==
    LET index == IndexRune(Base58BTCAlphabet, char)
    IN  IF index = -1
        THEN st
        ELSE LET m == MultiplyAdd(st.bytes, Len(Base58BTCAlphabet), index)
             IN  [bytes |-> GrowByCarry(m.decoded, m.carry), err |-> << >>]

\* body of "for _, char := range encoded { ... }" of decodeBase58BTC
DecodeStep(st, char) ==
    LET index == IndexRune(Base58BTCAlphabet, char)
    IN  IF index = -1
        THEN [bytes |-> << >>, err |-> ErrInvalidBase58Character]
        ELSE LET m == MultiplyAdd(st.bytes, Len(Base58BTCAlphabet), index)
             IN  [bytes |-> GrowByCarry(m.decoded, m.carry), err |-> << >>]

\* characters lo+1 .. hi of that loop; the loop returns at the first error
RECURSIVE DecodeChars(_, _, _, _)
DecodeChars(st, encoded, lo, hi) ==
    IF st.err # << >> \/ hi - lo <= 0 THEN st
    ELSE IF hi - lo = 1 THEN DecodeStep(st, encoded[lo + 1])
    ELSE LET mid == (lo + hi) \div 2
         IN  DecodeChars(DecodeChars(st, encoded, lo, mid), encoded, mid, hi)

decodeBase58BTC(encoded) ==
    IF encoded = << >>
    THEN [bytes |-> << >>, err |-> << >>]
    ELSE LET leadingOnes == CountLeading(encoded, Base58BTCAlphabet[1])
             r == DecodeChars([bytes |-> << 0 >>, err |-> << >>],
                              encoded, 0, Len(encoded))
         IN  IF r.err # << >>
             THEN r
             ELSE [bytes |-> Prepend(leadingOnes, 0, r.bytes), err |-> << >>]

----------------------------------------------------------------------------
(* Multibase *)

encodeMultibase(data) == MultibaseBase58BTCPrefix \o encodeBase58BTC(data)

ErrInvalidMultibasePrefix == << "invalid multibase prefix" >>

\* decodeMultibase dropping the first character without looking at it
decodeMultibaseAnyPrefix(encoded) ==
    decodeBase58BTC(SliceFrom(encoded, Len(MultibaseBase58BTCPrefix)))

decodeMultibase(encoded) ==
    IF ~HasPrefix(encoded, MultibaseBase58BTCPrefix)
    THEN [bytes |-> << >>, err |-> ErrInvalidMultibasePrefix]
    ELSE decodeBase58BTC(SliceFrom(encoded, Len(MultibaseBase58BTCPrefix)))

----------------------------------------------------------------------------
(* uint64 arithmetic: bit i of a value is v[i], i in 0..63 *)

Bits == 0..63

RECURSIVE Pow2(_)
Pow2(n) == IF n = 0 THEN 1 ELSE 2 * Pow2(n - 1)

\* uint64(n) for an untyped constant or a byte
U64(n) == [i \in Bits |-> IF i < 31 THEN (n \div Pow2(i)) % 2 ELSE 0]

\* a | b
U64Or(a, b) == [i \in Bits |-> IF a[i] = 1 \/ b[i] = 1 THEN 1 ELSE 0]

\* a << s, the bits shifted past bit 63 are lost
U64Shl(a, s) == [i \in Bits |-> IF i >= s THEN a[i - s] ELSE 0]

\* a >> s
U64Shr(a, s) == [i \in Bits |-> IF i + s <= 63 THEN a[i + s] ELSE 0]

\* byte(a)
U64Byte(a) ==
    a[0] + 2 * a[1] + 4 * a[2] + 8 * a[3] + 16 * a[4] + 32 * a[5]
         + 64 * a[6] + 128 * a[7]

\* a >= 0x80
U64AtLeast0x80(a) == \E i \in 7..63 : a[i] = 1

\* b | 0x80 and b & 0x7F on a byte
ByteOr0x80(b) == IF b >= 128 THEN b ELSE b + 128
ByteAnd0x7F(b) == b % 128
ByteAnd0x80(b) == IF b >= 128 THEN 128 ELSE 0

----------------------------------------------------------------------------
(* Key types and multicodec constants *)

KeyTypeEd25519    == "Ed25519"
KeyTypeX25519     == "X25519"
KeyTypeSecp256k1  == "secp256k1"
KeyTypeBLS12381G1 == "BLS12381G1"
KeyTypeBLS12381G2 == "BLS12381G2"
KeyTypeP256       == "P-256"
KeyTypeP384       == "P-384"

MulticodecEd25519Pub    == 237
MulticodecX25519Pub     == 236
MulticodecSecp256k1Pub  == 231
MulticodecBLS12381G1Pub == 234
MulticodecBLS12381G2Pub == 235
MulticodecP256Pub       == 4608
MulticodecP384Pub       == 4609

\* the nil error and NewError(operation, reason) of type *Error; the reason is
\* kept as its message without the formatted values
NoError == [Operation |-> "", Reason |-> << >>]
NewError(operation, reason) == [Operation |-> operation, Reason |-> reason]

----------------------------------------------------------------------------
(* Multicodec varint *)

\* the loop with "codec > 0x80" for "codec >= 0x80"
RECURSIVE encodeMulticodecLoopAbove(_, _)
encodeMulticodecLoopAbove(codec, result) ==
    IF U64AtLeast0x80(codec) /\ codec # U64(128)
    THEN encodeMulticodecLoopAbove(U64Shr(codec, 7),
                                   Append(result, ByteOr0x80(U64Byte(codec))))
    ELSE Append(result, U64Byte(codec))

\* "for codec >= 0x80 { result = append(result, byte(codec)|0x80); codec >>= 7 }"
RECURSIVE encodeMulticodecLoop(_, _)
encodeMulticodecLoop(codec, result) ==
    IF U64AtLeast0x80(codec)
    THEN encodeMulticodecLoop(U64Shr(codec, 7),
                              Append(result, ByteOr0x80(U64Byte(codec))))
    ELSE Append(result, U64Byte(codec))

encodeMulticodec(codec) == encodeMulticodecLoop(codec, << >>)

ErrVarintEmptyData  == << "empty data" >>
ErrVarintTooLarge   == << "multicodec value too large" >>
ErrVarintIncomplete == << "incomplete varint" >>

\* "for i, b := range data { ... }" of decodeMulticodec
RECURSIVE decodeMulticodecLoop(_, _, _, _)
decodeMulticodecLoop(data, i, value, shift) ==
    IF i >= Len(data)
    THEN [value |-> U64(0), bytesRead |-> 0, err |-> ErrVarintIncomplete]
    ELSE LET b  == data[i + 1]
             v2 == U64Or(value, U64Shl(U64(ByteAnd0x7F(b)), shift))
         IN  IF ByteAnd0x80(b) = 0
             THEN [value |-> v2, bytesRead |-> i + 1, err |-> << >>]
             ELSE IF shift + 7 >= 64
                  THEN [value |-> U64(0), bytesRead |-> 0,
                        err |-> ErrVarintTooLarge]
                  ELSE decodeMulticodecLoop(data, i + 1, v2, shift + 7)

decodeMulticodec(data) ==
    IF Len(data) = 0
    THEN [value |-> U64(0), bytesRead |-> 0, err |-> ErrVarintEmptyData]
    ELSE decodeMulticodecLoop(data, 0, U64(0), 0)

\* the lookup with the tag of P-256 copied into the case of P-384
getMulticodecForKeyTypeCopied(keyType) ==
    CASE keyType = KeyTypeEd25519    -> [codec |-> U64(MulticodecEd25519Pub), err |-> NoError]
      [] keyType = KeyTypeX25519     -> [codec |-> U64(MulticodecX25519Pub), err |-> NoError]
      [] keyType = KeyTypeSecp256k1  -> [codec |-> U64(MulticodecSecp256k1Pub), err |-> NoError]
      [] keyType = KeyTypeBLS12381G1 -> [codec |-> U64(MulticodecBLS12381G1Pub), err |-> NoError]
      [] keyType = KeyTypeBLS12381G2 -> [codec |-> U64(MulticodecBLS12381G2Pub), err |-> NoError]
      [] keyType = KeyTypeP256       -> [codec |-> U64(MulticodecP256Pub), err |-> NoError]
      [] keyType = KeyTypeP384       -> [codec |-> U64(MulticodecP256Pub), err |-> NoError]
      [] OTHER -> [codec |-> U64(0),
                   err |-> NewError("encode", << "unsupported key type" >>)]

getMulticodecForKeyType(keyType) ==
    CASE keyType = KeyTypeEd25519    -> [codec |-> U64(MulticodecEd25519Pub), err |-> NoError]
      [] keyType = KeyTypeX25519     -> [codec |-> U64(MulticodecX25519Pub), err |-> NoError]
      [] keyType = KeyTypeSecp256k1  -> [codec |-> U64(MulticodecSecp256k1Pub), err |-> NoError]
      [] keyType = KeyTypeBLS12381G1 -> [codec |-> U64(MulticodecBLS12381G1Pub), err |-> NoError]
      [] keyType = KeyTypeBLS12381G2 -> [codec |-> U64(MulticodecBLS12381G2Pub), err |-> NoError]
      [] keyType = KeyTypeP256       -> [codec |-> U64(MulticodecP256Pub), err |-> NoError]
      [] keyType = KeyTypeP384       -> [codec |-> U64(MulticodecP384Pub), err |-> NoError]
      [] OTHER -> [codec |-> U64(0),
                   err |-> NewError("encode", << "unsupported key type" >>)]

\* the lookup with the cases of the two 32-byte key types exchanged
getKeyTypeForMulticodecSwapped(codec) ==
    CASE codec = U64(MulticodecEd25519Pub)    -> [keyType |-> KeyTypeX25519, err |-> NoError]
      [] codec = U64(MulticodecX25519Pub)     -> [keyType |-> KeyTypeEd25519, err |-> NoError]
      [] codec = U64(MulticodecSecp256k1Pub)  -> [keyType |-> KeyTypeSecp256k1, err |-> NoError]
      [] codec = U64(MulticodecBLS12381G1Pub) -> [keyType |-> KeyTypeBLS12381G1, err |-> NoError]
      [] codec = U64(MulticodecBLS12381G2Pub) -> [keyType |-> KeyTypeBLS12381G2, err |-> NoError]
      [] codec = U64(MulticodecP256Pub)       -> [keyType |-> KeyTypeP256, err |-> NoError]
      [] codec = U64(MulticodecP384Pub)       -> [keyType |-> KeyTypeP384, err |-> NoError]
      [] OTHER -> [keyType |-> "",
                   err |-> NewError("decode", << "unsupported multicodec" >>)]

getKeyTypeForMulticodec(codec) ==
    CASE codec = U64(MulticodecEd25519Pub)    -> [keyType |-> KeyTypeEd25519, err |-> NoError]
      [] codec = U64(MulticodecX25519Pub)     -> [keyType |-> KeyTypeX25519, err |-> NoError]
      [] codec = U64(MulticodecSecp256k1Pub)  -> [keyType |-> KeyTypeSecp256k1, err |-> NoError]
      [] codec = U64(MulticodecBLS12381G1Pub) -> [keyType |-> KeyTypeBLS12381G1, err |-> NoError]
      [] codec = U64(MulticodecBLS12381G2Pub) -> [keyType |-> KeyTypeBLS12381G2, err |-> NoError]
      [] codec = U64(MulticodecP256Pub)       -> [keyType |-> KeyTypeP256, err |-> NoError]
      [] codec = U64(MulticodecP384Pub)       -> [keyType |-> KeyTypeP384, err |-> NoError]
      [] OTHER -> [keyType |-> "",
                   err |-> NewError("decode", << "unsupported multicodec" >>)]

encodeMulticodecKey(keyType, keyBytes) ==
    LET c == getMulticodecForKeyType(keyType)
    IN  IF c.err # NoError
        THEN [bytes |-> << >>, err |-> c.err]
        ELSE [bytes |-> encodeMulticodec(c.codec) \o keyBytes, err |-> NoError]

\* decodeMulticodecKey checking the number of key bytes ahead of the tag
decodeMulticodecKeySizeFirst(data) ==
    IF Len(data) = 0
    THEN [keyType |-> "", keyBytes |-> << >>,
          err |-> NewError("decode", << "empty data" >>)]
    ELSE LET d == decodeMulticodec(data)
         IN  IF d.err # << >>
             THEN [keyType |-> "", keyBytes |-> << >>,
                   err |-> NewError("decode",
                              << "failed to decode multicodec" >> \o d.err)]
             ELSE IF Len(data) - d.bytesRead \notin {32, 33, 48, 49, 96}
             THEN [keyType |-> "", keyBytes |-> << >>,
                   err |-> NewError("validate", << "invalid key size" >>)]
             ELSE LET t == getKeyTypeForMulticodec(d.value)
                  IN  IF t.err # NoError
                      THEN [keyType |-> "", keyBytes |-> << >>, err |-> t.err]
                      ELSE [keyType |-> t.keyType,
                            keyBytes |-> SliceFrom(data, d.bytesRead),
                            err |-> NoError]

decodeMulticodecKey(data) ==
    IF Len(data) = 0
    THEN [keyType |-> "", keyBytes |-> << >>,
          err |-> NewError("decode", << "empty data" >>)]
    ELSE LET d == decodeMulticodec(data)
         IN  IF d.err # << >>
             THEN [keyType |-> "", keyBytes |-> << >>,
                   err |-> NewError("decode",
                              << "failed to decode multicodec" >> \o d.err)]
             ELSE LET t == getKeyTypeForMulticodec(d.value)
                  IN  IF t.err # NoError
                      THEN [keyType |-> "", keyBytes |-> << >>, err |-> t.err]
                      ELSE [keyType |-> t.keyType,
                            keyBytes |-> SliceFrom(data, d.bytesRead),
                            err |-> NoError]

----------------------------------------------------------------------------
(* Encode / Decode *)

ErrEmptyKeyBytes        == << "key bytes cannot be empty" >>
ErrUnsupportedKeyType   == << "unsupported key type" >>
ErrInvalidKeySize       == << "invalid key size" >>
ErrInvalidDIDKeyPrefix  == << "invalid DID key prefix" >>
ErrEmptyMultibaseString == << "empty multibase string" >>
ErrMultibaseDecodeFailed == << "failed to decode multibase" >>

\* the switch of validateKeySize; 0 stands for the default branch
expectedSize(keyType) ==
    CASE keyType = KeyTypeEd25519    -> 32
      [] keyType = KeyTypeX25519     -> 32
      [] keyType = KeyTypeSecp256k1  -> 33
      [] keyType = KeyTypeBLS12381G1 -> 48
      [] keyType = KeyTypeBLS12381G2 -> 96
      [] keyType = KeyTypeP256       -> 33
      [] keyType = KeyTypeP384       -> 49
      [] OTHER -> 0

\* the size check with ">" for "!="
validateKeySizeAtMost(keyType, keyBytes) ==
    IF expectedSize(keyType) = 0
    THEN NewError("validate", ErrUnsupportedKeyType)
    ELSE IF Len(keyBytes) > expectedSize(keyType)
         THEN NewError("validate", ErrInvalidKeySize)
         ELSE NoError

validateKeySize(keyType, keyBytes) ==
    IF expectedSize(keyType) = 0
    THEN NewError("validate", ErrUnsupportedKeyType)
    ELSE IF Len(keyBytes) # expectedSize(keyType)
         THEN NewError("validate", ErrInvalidKeySize)
         ELSE NoError

\* Encode with the size validation ahead of the emptiness check
EncodeValidateFirst(keyType, keyBytes) ==
    IF validateKeySize(keyType, keyBytes) # NoError
    THEN [didKey |-> << >>, err |-> validateKeySize(keyType, keyBytes)]
    ELSE IF Len(keyBytes) = 0
    THEN [didKey |-> << >>, err |-> NewError("encode", ErrEmptyKeyBytes)]
    ELSE LET m == encodeMulticodecKey(keyType, keyBytes)
         IN  IF m.err # NoError
             THEN [didKey |-> << >>, err |-> m.err]
             ELSE [didKey |-> DIDKeyPrefix \o encodeMultibase(m.bytes),
                   err |-> NoError]

Encode(keyType, keyBytes) ==
    IF Len(keyBytes) = 0
    THEN [didKey |-> << >>, err |-> NewError("encode", ErrEmptyKeyBytes)]
    ELSE IF validateKeySize(keyType, keyBytes) # NoError
    THEN [didKey |-> << >>, err |-> validateKeySize(keyType, keyBytes)]
    ELSE LET m == encodeMulticodecKey(keyType, keyBytes)
         IN  IF m.err # NoError
             THEN [didKey |-> << >>, err |-> m.err]
             ELSE [didKey |-> DIDKeyPrefix \o encodeMultibase(m.bytes),
                   err |-> NoError]

\* Decode without the size validation of its last stage
DecodeUnvalidated(didKey) ==
    IF ~HasPrefix(didKey, DIDKeyPrefix)
    THEN [keyType |-> "", keyBytes |-> << >>,
          err |-> NewError("decode", ErrInvalidDIDKeyPrefix)]
    ELSE LET multibaseString == SliceFrom(didKey, Len(DIDKeyPrefix))
         IN  IF multibaseString = << >>
             THEN [keyType |-> "", keyBytes |-> << >>,
                   err |-> NewError("decode", ErrEmptyMultibaseString)]
             ELSE LET mb == decodeMultibase(multibaseString)
                  IN  IF mb.err # << >>
                      THEN [keyType |-> "", keyBytes |-> << >>,
                            err |-> NewError("decode",
                                     ErrMultibaseDecodeFailed \o mb.err)]
                      ELSE LET mc == decodeMulticodecKey(mb.bytes)
                           IN  IF mc.err # NoError
                               THEN [keyType |-> "", keyBytes |-> << >>,
                                     err |-> mc.err]
                               ELSE [keyType |-> mc.keyType,
                                     keyBytes |-> mc.keyBytes,
                                     err |-> NoError]

\* Decode returning the resolved key type along with a key size error
DecodePartial(didKey) ==
    IF ~HasPrefix(didKey, DIDKeyPrefix)
    THEN [keyType |-> "", keyBytes |-> << >>,
          err |-> NewError("decode", ErrInvalidDIDKeyPrefix)]
    ELSE LET multibaseString == SliceFrom(didKey, Len(DIDKeyPrefix))
         IN  IF multibaseString = << >>
             THEN [keyType |-> "", keyBytes |-> << >>,
                   err |-> NewError("decode", ErrEmptyMultibaseString)]
             ELSE LET mb == decodeMultibase(multibaseString)
                  IN  IF mb.err # << >>
                      THEN [keyType |-> "", keyBytes |-> << >>,
                            err |-> NewError("decode",
                                     ErrMultibaseDecodeFailed \o mb.err)]
                      ELSE LET mc == decodeMulticodecKey(mb.bytes)
                           IN  IF mc.err # NoError
                               THEN [keyType |-> "", keyBytes |-> << >>,
                                     err |-> mc.err]
                               ELSE IF validateKeySize(mc.keyType, mc.keyBytes) # NoError
                               THEN [keyType |-> mc.keyType, keyBytes |-> << >>,
                                     err |-> validateKeySize(mc.keyType, mc.keyBytes)]
                               ELSE [keyType |-> mc.keyType,
                                     keyBytes |-> mc.keyBytes,
                                     err |-> NoError]

Decode(didKey) ==
    IF ~HasPrefix(didKey, DIDKeyPrefix)
    THEN [keyType |-> "", keyBytes |-> << >>,
          err |-> NewError("decode", ErrInvalidDIDKeyPrefix)]
    ELSE LET multibaseString == SliceFrom(didKey, Len(DIDKeyPrefix))
         IN  IF multibaseString = << >>
             THEN [keyType |-> "", keyBytes |-> << >>,
                   err |-> NewError("decode", ErrEmptyMultibaseString)]
             ELSE LET mb == decodeMultibase(multibaseString)
                  IN  IF mb.err # << >>
                      THEN [keyType |-> "", keyBytes |-> << >>,
                            err |-> NewError("decode",
                                     ErrMultibaseDecodeFailed \o mb.err)]
                      ELSE LET mc == decodeMulticodecKey(mb.bytes)
                           IN  IF mc.err # NoError
                               THEN [keyType |-> "", keyBytes |-> << >>,
                                     err |-> mc.err]
                               ELSE IF validateKeySize(mc.keyType, mc.keyBytes) # NoError
                               THEN [keyType |-> "", keyBytes |-> << >>,
                                     err |-> validateKeySize(mc.keyType, mc.keyBytes)]
                               ELSE [keyType |-> mc.keyType,
                                     keyBytes |-> mc.keyBytes,
                                     err |-> NoError]

\* FromBytes: the *DIDKey is a sequence, empty for nil, else one record
FromBytes(keyType, keyBytes) ==
    IF validateKeySize(keyType, keyBytes) # NoError
    THEN [dk |-> << >>, err |-> validateKeySize(keyType, keyBytes)]
    ELSE [dk |-> << [Type |-> keyType, Key |-> keyBytes] >>, err |-> NoError]

Parse(didKey) ==
    LET d == Decode(didKey)
    IN  IF d.err # NoError
        THEN [dk |-> << >>, err |-> d.err]
        ELSE [dk |-> << [Type |-> d.keyType, Key |-> d.keyBytes] >>,
              err |-> NoError]

IsValidDIDKey(didKey) == Decode(didKey).err = NoError

\* GetKeyType stopping at the tag, "without full validation"
GetKeyTypeTagOnly(didKey) ==
    LET d == DecodeUnvalidated(didKey)
    IN  [keyType |-> d.keyType, err |-> d.err]

GetKeyType(didKey) ==
    LET d == Decode(didKey)
    IN  [keyType |-> d.keyType, err |-> d.err]

----------------------------------------------------------------------------
(* Callers: the inputs the operations are applied to *)

MaxKeyLen  == 97
MaxRun     == 2
MaxDelta   == 1
MaxTextLen == 3

SampleBytes == {0, 1, 255}

SupportedKeyTypes ==
    { KeyTypeEd25519, KeyTypeX25519, KeyTypeSecp256k1, KeyTypeBLS12381G1,
      KeyTypeBLS12381G2, KeyTypeP256, KeyTypeP384 }

\* key type values a caller can pass: the supported ones, the zero value and
\* a label outside the enumeration
KeyTypeValues == SupportedKeyTypes \cup {"", "RSA"}

\* n bytes: a run of k bytes a, then bytes b
Fill(n, k, a, b) == [i \in 1..n |-> IF i <= k THEN a ELSE b]

\* the key of the test vector "Ed25519-from-spec"
TestVectorKey ==
    << 46, 111, 204, 227, 103, 1, 220, 121, 20, 136, 224, 208, 177,
       116, 92, 193, 227, 58, 76, 28, 159, 204, 65, 198, 59, 211,
       67, 219, 190, 9, 112, 230 >>

KeyBytesValues ==
    { Fill(n, k, a, b) : n \in 0..MaxKeyLen, k \in 0..MaxRun,
                         a \in SampleBytes, b \in SampleBytes }
    \cup { TestVectorKey }

\* the varint of the tag of every supported type, as it appears on the wire
WireTag(keyType) ==
    CASE keyType = KeyTypeEd25519    -> << 237, 1 >>
      [] keyType = KeyTypeX25519     -> << 236, 1 >>
      [] keyType = KeyTypeSecp256k1  -> << 231, 1 >>
      [] keyType = KeyTypeBLS12381G1 -> << 234, 1 >>
      [] keyType = KeyTypeBLS12381G2 -> << 235, 1 >>
      [] keyType = KeyTypeP256       -> << 128, 36 >>
      [] keyType = KeyTypeP384       -> << 129, 36 >>

\* the key size of every supported type, as the format fixes it
FixedSize(keyType) ==
    CASE keyType = KeyTypeEd25519    -> 32
      [] keyType = KeyTypeX25519     -> 32
      [] keyType = KeyTypeSecp256k1  -> 33
      [] keyType = KeyTypeBLS12381G1 -> 48
      [] keyType = KeyTypeBLS12381G2 -> 96
      [] keyType = KeyTypeP256       -> 33
      [] keyType = KeyTypeP384       -> 49

\* other leading bytes of a payload: varints of unknown tags (0, 1, 0xee,
\* 0x1202), non-minimal varints of 0xed and 0x1200, varints cut short,
\* varints of more than 64 bits, the varints of 0x16d and of 2^64 - 1
OtherTagBytes ==
    { << 0 >>, << 1 >>, << 238, 1 >>, << 130, 36 >>,
      << 237, 129, 0 >>, << 128, 164, 0 >>,
      << 237 >>, << 128, 164 >>,
      Fill(10, 9, 255, 127), Fill(11, 10, 255, 1),
      << 237, 2 >>, Fill(10, 9, 255, 1) }

\* how many bytes follow such leading bytes
TrailingLengths == {0, 1, 32, 33, 48, 96}

\* tagged bytes: a supported tag with no key, with a key of the right size or
\* of a size up to MaxDelta away; other leading bytes with TrailingLengths bytes
PayloadValues ==
    UNION { { WireTag(t) \o Fill(n, 0, 0, b) :
                n \in {0} \cup (FixedSize(t) - MaxDelta .. FixedSize(t) + MaxDelta),
                b \in {0, 255} } :
            t \in SupportedKeyTypes }
    \cup
    { tag \o Fill(n, 0, 0, 255) : tag \in OtherTagBytes, n \in TrailingLengths }
    \cup { << >> }

\* what precedes the multibase part
PrefixValues ==
    { DIDKeyPrefix,
      << "d","i","d",":","w","e","b",":" >>,
      << "d","i","d",":","k","e","y" >>,
      << "D","I","D",":","K","E","Y",":" >>,
      << " " >> \o DIDKeyPrefix,
      << >> }

\* strings made of the given characters, up to n long
RECURSIVE StringsUpTo(_, _)
StringsUpTo(chars, n) ==
    IF n = 0 THEN { << >> }
    ELSE LET shorter == StringsUpTo(chars, n - 1)
         IN  shorter \cup { Append(x, c) : x \in shorter, c \in chars }

\* short multibase parts, well formed or not
TextValues == StringsUpTo({ "z", "m", "1", "6", "0", "l" }, MaxTextLen)

\* what stands in the place of the "z": nothing, the characters of other
\* multibase encodings, an upper-case Z
OtherDiscriminators ==
    { << >>, << "m" >>, << "f" >>, << "u" >>, << "Z" >>, << "1" >>, << " ", "z" >> }

\* identifiers: every prefix before a short text or before the encoding of a
\* well-sized Ed25519 key, and the right prefix before every encoded payload
DIDKeyValues ==
    { x \o m : x \in PrefixValues, m \in TextValues }
    \cup
    { x \o encodeMultibase(WireTag(KeyTypeEd25519) \o Fill(32, 0, 0, 255)) :
        x \in PrefixValues }
    \cup
    { DIDKeyPrefix \o encodeMultibase(p) : p \in PayloadValues }
    \cup
    { DIDKeyPrefix \o x \o encodeBase58BTC(WireTag(KeyTypeEd25519) \o Fill(32, 0, 0, 255)) :
        x \in OtherDiscriminators }

NoArg == [kind |-> "none", keyType |-> "", keyBytes |-> << >>, didKey |-> << >>]

VARIABLES op, arg, ret

vars == << op, arg, ret >>

\* the caller holds a key type and key bytes, or an identifier
Init ==
    /\ op = "none"
    /\ ret = << >>
    /\ \/ \E t \in KeyTypeValues, b \in KeyBytesValues :
              arg = [NoArg EXCEPT !.kind = "key", !.keyType = t, !.keyBytes = b]
       \/ \E s \in DIDKeyValues :
              arg = [NoArg EXCEPT !.kind = "id", !.didKey = s]

\* every behaviour is one call, or one call and the call made on its result
CallEncode ==
    /\ op = "none" /\ arg.kind = "key"
    /\ op' = "Encode"
    /\ ret' = Encode(arg.keyType, arg.keyBytes)
    /\ UNCHANGED arg

CallFromBytes ==
    /\ op = "none" /\ arg.kind = "key"
    /\ op' = "FromBytes"
    /\ ret' = FromBytes(arg.keyType, arg.keyBytes)
    /\ UNCHANGED arg

CallDecode ==
    /\ op = "none" /\ arg.kind = "id"
    /\ op' = "Decode"
    /\ ret' = Decode(arg.didKey)
    /\ UNCHANGED arg

CallParse ==
    /\ op = "none" /\ arg.kind = "id"
    /\ op' = "Parse"
    /\ ret' = Parse(arg.didKey)
    /\ UNCHANGED arg

CallGetKeyType ==
    /\ op = "none" /\ arg.kind = "id"
    /\ op' = "GetKeyType"
    /\ ret' = GetKeyType(arg.didKey)
    /\ UNCHANGED arg

CallIsValidDIDKey ==
    /\ op = "none" /\ arg.kind = "id"
    /\ op' = "IsValidDIDKey"
    /\ ret' = [valid |-> IsValidDIDKey(arg.didKey)]
    /\ UNCHANGED arg

\* Decode applied to the identifier Encode has just returned (TestRoundTrip)
CallDecodeEncoded ==
    /\ op = "Encode"
    /\ ret.err = NoError
    /\ op' = "DecodeEncoded"
    /\ arg' = [arg EXCEPT !.didKey = ret.didKey]
    /\ ret' = Decode(ret.didKey)

\* Encode applied to what Decode has just returned (TestSpecificationExamples)
CallEncodeDecoded ==
    /\ op = "Decode"
    /\ ret.err = NoError
    /\ op' = "EncodeDecoded"
    /\ arg' = [arg EXCEPT !.keyType = ret.keyType, !.keyBytes = ret.keyBytes]
    /\ ret' = Encode(ret.keyType, ret.keyBytes)

Next ==
    \/ CallEncode
    \/ CallFromBytes
    \/ CallDecode
    \/ CallParse
    \/ CallGetKeyType
    \/ CallIsValidDIDKey
    \/ CallDecodeEncoded
    \/ CallEncodeDecoded

Spec == Init /\ [][Next]_vars


----------------------------------------------------------------------------
(* Callers of the base58 codec *)

MaxDataLen == 4

\* byte slices: every sequence of sample bytes up to MaxDataLen long, and
\* slices of 32, 64 and 128 bytes with a run of zero bytes at the front
DataValues ==
    StringsUpTo(SampleBytes, MaxDataLen)
    \cup { Fill(n, k, 0, b) : n \in {32, 64, 128}, k \in 0..MaxRun,
                              b \in SampleBytes }

\* texts: every string up to MaxTextLen long of three alphabet characters and
\* the four look-alikes the alphabet leaves out
Base58TextValues ==
    StringsUpTo({ "1", "2", "z", "0", "O", "I", "l" }, MaxTextLen)

InitBase58 ==
    /\ op = "none"
    /\ ret = << >>
    /\ \/ \E d \in DataValues : arg = [kind |-> "data", data |-> d, text |-> << >>]
       \/ \E x \in Base58TextValues :
              arg = [kind |-> "text", data |-> << >>, text |-> x]

CallEncodeBase58BTC ==
    /\ op = "none" /\ arg.kind = "data"
    /\ op' = "encodeBase58BTC"
    /\ ret' = [text |-> encodeBase58BTC(arg.data)]
    /\ UNCHANGED arg

CallDecodeBase58BTC ==
    /\ op = "none" /\ arg.kind = "text"
    /\ op' = "decodeBase58BTC"
    /\ ret' = decodeBase58BTC(arg.text)
    /\ UNCHANGED arg

\* decodeBase58BTC applied to the text encodeBase58BTC has just returned
CallDecodeEncodedBase58BTC ==
    /\ op = "encodeBase58BTC"
    /\ op' = "decodeEncodedBase58BTC"
    /\ arg' = [arg EXCEPT !.text = ret.text]
    /\ ret' = decodeBase58BTC(ret.text)

NextBase58 ==
    \/ CallEncodeBase58BTC
    \/ CallDecodeBase58BTC
    \/ CallDecodeEncodedBase58BTC

SpecBase58 == InitBase58 /\ [][NextBase58]_vars

----------------------------------------------------------------------------
(* Callers of the key-type registry and of the varint codec *)

MaxCodec     == 300
MaxVarintLen == 3

\* the uint64 with the k low bits set, and the one with only bit k set
LowBits(k) == [i \in Bits |-> IF i < k THEN 1 ELSE 0]
OneBit(k)  == [i \in Bits |-> IF i = k THEN 1 ELSE 0]

\* codec values: the small ones, the ones around 0x1200, every 2^k - 1 and
\* 2^k, and each registered tag with one more bit set higher up
CodecValues ==
    { U64(n) : n \in 0..MaxCodec }
    \cup { U64(n) : n \in 4600..4616 }
    \cup { LowBits(k) : k \in 0..64 }
    \cup { OneBit(k) : k \in Bits }
    \cup { U64Or(U64(n), OneBit(k)) :
             n \in { MulticodecEd25519Pub, MulticodecX25519Pub,
                     MulticodecSecp256k1Pub, MulticodecBLS12381G1Pub,
                     MulticodecBLS12381G2Pub, MulticodecP256Pub,
                     MulticodecP384Pub },
             k \in {13, 31, 32, 63} }

\* the bytes that follow a varint in the slice
RestValues == { << >>, << 0 >>, << 128 >>, << 255, 1 >>, << 1, 128 >> }

\* slices handed to decodeMulticodec: every short sequence of the bytes
\* 0x00, 0x01, 0x7f, 0x80, 0xff, and runs of 7 to 11 continuation bytes
\* followed by one more byte
VarintValues ==
    StringsUpTo({0, 1, 127, 128, 255}, MaxVarintLen)
    \cup { Fill(n, n - 1, c, last) :
             n \in 8..12, c \in {128, 255},
             last \in {0, 1, 2, 3, 64, 127, 128, 129, 255} }

\* key type values handed to the registry
RegistryKeyTypeValues ==
    KeyTypeValues \cup { "ed25519", "ED25519", "P256", "p-256", "secp256r1" }

NoCodecArg ==
    [kind |-> "none", keyType |-> "", codec |-> U64(0), rest |-> << >>,
     data |-> << >>]

InitCodec ==
    /\ op = "none"
    /\ ret = << >>
    /\ \/ \E t \in RegistryKeyTypeValues :
              arg = [NoCodecArg EXCEPT !.kind = "keyType", !.keyType = t]
       \/ \E c \in CodecValues, r \in RestValues :
              arg = [NoCodecArg EXCEPT !.kind = "codec", !.codec = c, !.rest = r]
       \/ \E d \in VarintValues :
              arg = [NoCodecArg EXCEPT !.kind = "data", !.data = d]

CallGetMulticodecForKeyType ==
    /\ op = "none" /\ arg.kind = "keyType"
    /\ op' = "getMulticodecForKeyType"
    /\ ret' = getMulticodecForKeyType(arg.keyType)
    /\ UNCHANGED arg

CallGetKeyTypeForMulticodec ==
    /\ op = "none" /\ arg.kind = "codec"
    /\ op' = "getKeyTypeForMulticodec"
    /\ ret' = getKeyTypeForMulticodec(arg.codec)
    /\ UNCHANGED arg

\* the tag getMulticodecForKeyType has just returned, looked up again
CallGetKeyTypeForReturnedMulticodec ==
    /\ op = "getMulticodecForKeyType"
    /\ ret.err = NoError
    /\ op' = "getKeyTypeForReturnedMulticodec"
    /\ arg' = [arg EXCEPT !.codec = ret.codec]
    /\ ret' = getKeyTypeForMulticodec(ret.codec)

\* the key type getKeyTypeForMulticodec has just returned, looked up again
CallGetMulticodecForReturnedKeyType ==
    /\ op = "getKeyTypeForMulticodec"
    /\ ret.err = NoError
    /\ op' = "getMulticodecForReturnedKeyType"
    /\ arg' = [arg EXCEPT !.keyType = ret.keyType]
    /\ ret' = getMulticodecForKeyType(ret.keyType)

CallEncodeMulticodec ==
    /\ op = "none" /\ arg.kind = "codec"
    /\ op' = "encodeMulticodec"
    /\ ret' = [bytes |-> encodeMulticodec(arg.codec)]
    /\ UNCHANGED arg

CallDecodeMulticodec ==
    /\ op = "none" /\ arg.kind = "data"
    /\ op' = "decodeMulticodec"
    /\ ret' = decodeMulticodec(arg.data)
    /\ UNCHANGED arg

\* decodeMulticodec applied to the bytes encodeMulticodec has just returned,
\* with the rest of the slice behind them (encodeMulticodecKey lays them out
\* so, decodeMulticodecKey reads them so)
CallDecodeEncodedMulticodec ==
    /\ op = "encodeMulticodec"
    /\ op' = "decodeEncodedMulticodec"
    /\ arg' = [arg EXCEPT !.data = ret.bytes \o arg.rest]
    /\ ret' = decodeMulticodec(ret.bytes \o arg.rest)

NextCodec ==
    \/ CallGetMulticodecForKeyType
    \/ CallGetKeyTypeForMulticodec
    \/ CallGetKeyTypeForReturnedMulticodec
    \/ CallGetMulticodecForReturnedKeyType
    \/ CallEncodeMulticodec
    \/ CallDecodeMulticodec
    \/ CallDecodeEncodedMulticodec

SpecCodec == InitCodec /\ [][NextCodec]_vars

----------------------------------------------------------------------------
(* Byte slices in memory: who shares a backing array with whom *)
(*                                                                         *)
(* mem is the sequence of backing arrays allocated so far; a slice value   *)
(* is the index of its array in mem, 0 for the nil slice. All slices here  *)
(* span their whole array.                                                 *)

Content(mem, s) == IF s = 0 THEN << >> ELSE mem[s]

\* make([]byte, n) followed by copy, with the bytes it ends up holding
makeAndCopy(mem, bytes) == [mem |-> Append(mem, bytes), slice |-> Len(mem) + 1]

\* the slice handed back as it is, without a new array
appendToNilShared(mem, s) == [mem |-> mem, slice |-> s]

\* append([]byte(nil), x...): a new array holding the bytes of x, nil when x
\* has none
appendToNil(mem, s) ==
    IF Len(Content(mem, s)) = 0
    THEN [mem |-> mem, slice |-> 0]
    ELSE [mem |-> Append(mem, Content(mem, s)), slice |-> Len(mem) + 1]

\* FromBytes on a slice in memory
FromBytesMem(mem, keyType, keyBytes) ==
    IF validateKeySize(keyType, Content(mem, keyBytes)) # NoError
    THEN [mem |-> mem, dk |-> << >>,
          err |-> validateKeySize(keyType, Content(mem, keyBytes))]
    ELSE LET c == appendToNil(mem, keyBytes)
         IN  [mem |-> c.mem, dk |-> << [Type |-> keyType, Key |-> c.slice] >>,
              err |-> NoError]

\* (dk *DIDKey) Bytes()
BytesMem(mem, dk) == appendToNil(mem, dk.Key)

\* what the loop "for len(num) > 0 { ... }" of encodeBase58BTC leaves in the
\* array of num: it writes the quotient bytes over num, and every byte is a
\* zero quotient byte by the time "num = num[1:]" steps over it
divideInPlace(mem, num) == [mem EXCEPT ![num] = [i \in 1..Len(mem[num]) |-> 0]]

\* Encode on a slice in memory: encodeMulticodecKey allocates result and
\* copies the tag and the key into it, encodeBase58BTC allocates num, copies
\* its argument into it and divides num in place
EncodeMem(mem, keyType, keyBytes) ==
    LET r == Encode(keyType, Content(mem, keyBytes))
    IN  IF r.err # NoError
        THEN [mem |-> mem, didKey |-> r.didKey, err |-> r.err]
        ELSE LET m      == encodeMulticodecKey(keyType, Content(mem, keyBytes))
                 result == makeAndCopy(mem, m.bytes)
                 num    == makeAndCopy(result.mem, Content(result.mem, result.slice))
             IN  [mem |-> divideInPlace(num.mem, num.slice),
                  didKey |-> r.didKey, err |-> r.err]

\* the caller's buffers: nothing, one byte, and the sizes of the key types
\* and their neighbours, with up to MaxRun leading zero bytes
BufferValues ==
    { Fill(n, k, 0, b) : n \in {0, 1, 31, 32, 33, 34, 48, 49, 96, 97},
                         k \in 0..MaxRun, b \in {1, 255} }

\* the bytes a caller writes over a byte of a slice it holds
WrittenBytes == {0, 170}

InitMem ==
    /\ op = "none"
    /\ ret = << >>
    /\ \E t \in KeyTypeValues, b \in BufferValues :
           arg = [kind |-> "buf", keyType |-> t,
                  mem |-> IF b = << >> THEN << >> ELSE << b >>,
                  keyBytes |-> IF b = << >> THEN 0 ELSE 1,
                  before |-> b]

CallEncodeMem ==
    /\ op = "none"
    /\ op' = "Encode"
    /\ LET r == EncodeMem(arg.mem, arg.keyType, arg.keyBytes)
       IN  /\ arg' = [arg EXCEPT !.mem = r.mem]
           /\ ret' = [didKey |-> r.didKey, err |-> r.err]

CallFromBytesMem ==
    /\ op = "none"
    /\ op' = "FromBytes"
    /\ LET r == FromBytesMem(arg.mem, arg.keyType, arg.keyBytes)
       IN  /\ arg' = [arg EXCEPT !.mem = r.mem]
           /\ ret' = [dk |-> r.dk, err |-> r.err, out |-> 0]

\* the caller overwrites a byte of the slice it passed to FromBytes
WriteKeyBytes ==
    /\ op = "FromBytes"
    /\ ret.err = NoError
    /\ op' = "WriteKeyBytes"
    /\ \E i \in {1, Len(arg.mem[arg.keyBytes])}, v \in WrittenBytes :
           /\ arg.mem[arg.keyBytes][i] # v
           /\ arg' = [arg EXCEPT !.mem[arg.keyBytes][i] = v]
    /\ UNCHANGED ret

CallBytesMem ==
    /\ op \in {"FromBytes", "WriteKeyBytes"}
    /\ ret.err = NoError
    /\ op' = "Bytes"
    /\ LET r == BytesMem(arg.mem, ret.dk[1])
       IN  /\ arg' = [arg EXCEPT !.mem = r.mem]
           /\ ret' = [ret EXCEPT !.out = r.slice]

\* the caller overwrites a byte of the slice Bytes() returned
WriteBytes ==
    /\ op = "Bytes"
    /\ ret.out # 0
    /\ op' = "WriteBytes"
    /\ \E i \in {1, Len(arg.mem[ret.out])}, v \in WrittenBytes :
           /\ arg.mem[ret.out][i] # v
           /\ arg' = [arg EXCEPT !.mem[ret.out][i] = v]
    /\ UNCHANGED ret

NextMem ==
    \/ CallEncodeMem
    \/ CallFromBytesMem
    \/ WriteKeyBytes
    \/ CallBytesMem
    \/ WriteBytes

SpecMem == InitMem /\ [][NextMem]_vars

----------------------------------------------------------------------------
(* Properties *)

Failed(e) == e # NoError

\* C1: for every supported key type t and every key b of t's fixed size,
\* Encode(t, b) succeeds and Decode of the identifier it returns succeeds and
\* returns exactly (t, b).
RoundTrip ==
    /\ ( /\ op = "Encode"
         /\ arg.keyType \in SupportedKeyTypes
         /\ Len(arg.keyBytes) = FixedSize(arg.keyType) )
       => ret.err = NoError
    /\ op = "DecodeEncoded"
       => /\ arg.keyType \in SupportedKeyTypes
          /\ Len(arg.keyBytes) = FixedSize(arg.keyType)
          /\ ret = [keyType |-> arg.keyType, keyBytes |-> arg.keyBytes,
                    err |-> NoError]

\* a 96-byte BLS12-381 G2 key that starts with zero bytes went through Encode
\* and Decode
RoundTripWitness ==
    /\ op = "DecodeEncoded"
    /\ arg.keyType = KeyTypeBLS12381G2
    /\ arg.keyBytes[1] = 0 /\ arg.keyBytes[96] = 255
    /\ ret.keyBytes = arg.keyBytes

\* C2: for every byte sequence b, decodeBase58BTC(encodeBase58BTC(b))
\* succeeds and returns exactly b, leading zero bytes included.
Base58RoundTrip ==
    op = "decodeEncodedBase58BTC"
        => /\ ret.err = << >>
           /\ ret.bytes = arg.data

\* C3: for every supported key type t and every non-empty b, Encode(t, b)
\* succeeds if and only if len(b) is t's fixed size, and otherwise returns an
\* invalid-key-size error and no identifier.
SizeRejection ==
    ( /\ op = "Encode"
      /\ arg.keyType \in SupportedKeyTypes
      /\ Len(arg.keyBytes) > 0 )
    => IF Len(arg.keyBytes) = FixedSize(arg.keyType)
       THEN ret.err = NoError /\ ret.didKey # << >>
       ELSE ret.err.Reason = ErrInvalidKeySize /\ ret.didKey = << >>

\* Encode refused a 34-byte secp256k1 key and a 95-byte BLS12-381 G2 key
SizeRejectionWitness ==
    /\ op = "Encode"
    /\ \/ arg.keyType = KeyTypeSecp256k1 /\ Len(arg.keyBytes) = 34
       \/ arg.keyType = KeyTypeBLS12381G2 /\ Len(arg.keyBytes) = 95
    /\ ret.err.Reason = ErrInvalidKeySize

StartsWithDidKey(s) ==
    /\ Len(s) >= 8
    /\ SubSeq(s, 1, 8) = << "d","i","d",":","k","e","y",":" >>

\* C4: for every string that does not start with "did:key:", Decode fails
\* with the invalid-prefix error, whatever follows.
PrefixRejection ==
    (op = "Decode" /\ ~StartsWithDidKey(arg.didKey))
        => /\ ret.err = NewError("decode", ErrInvalidDIDKeyPrefix)
           /\ ret.keyType = "" /\ ret.keyBytes = << >>

\* Decode refused "did:web:" followed by the encoding of a valid Ed25519 key
PrefixRejectionWitness ==
    /\ op = "Decode"
    /\ Len(arg.didKey) > 40
    /\ SubSeq(arg.didKey, 1, 9) = << "d","i","d",":","w","e","b",":","z" >>
    /\ ret.err.Reason = ErrInvalidDIDKeyPrefix

\* C5 as stated: Decode("") reports the empty-multibase-string error.
DecodeEmptyIsEmptyMultibase ==
    (op = "Decode" /\ arg.didKey = << >>)
        => ret.err.Reason = ErrEmptyMultibaseString

\* C5 as amended: Decode("") fails with the invalid-prefix error; the
\* empty-multibase-string error is what Decode("did:key:") reports.
DecodeEmptyIsInvalidPrefix ==
    /\ (op = "Decode" /\ arg.didKey = << >>)
           => ret.err = NewError("decode", ErrInvalidDIDKeyPrefix)
    /\ (op = "Decode" /\ arg.didKey = << "d","i","d",":","k","e","y",":" >>)
           => ret.err = NewError("decode", ErrEmptyMultibaseString)

\* Decode was called on the empty string and failed
DecodeEmptyWitness ==
    /\ op = "Decode"
    /\ arg.didKey = << >>
    /\ Failed(ret.err)

\* C6: for every key type value, supported or not, Encode of empty key bytes
\* fails with the empty-key-bytes error, never with a type or size error.
EmptyKeyFirst ==
    (op = "Encode" /\ Len(arg.keyBytes) = 0)
        => /\ ret.err = NewError("encode", ErrEmptyKeyBytes)
           /\ ret.didKey = << >>

\* Encode was called with an unsupported key type and no key bytes
EmptyKeyFirstWitness ==
    /\ op = "Encode"
    /\ arg.keyType = "RSA"
    /\ arg.keyBytes = << >>
    /\ ret.err.Reason = ErrEmptyKeyBytes

\* C7: for every identifier Decode accepts, returning (t, k), Encode(t, k)
\* succeeds and returns the identical identifier.
CanonicalIdentifier ==
    op = "EncodeDecoded"
        => /\ ret.err = NoError
           /\ ret.didKey = arg.didKey

ClaimAlphabet ==
    { "1","2","3","4","5","6","7","8","9",
      "A","B","C","D","E","F","G","H","J","K","L","M","N","P","Q","R","S",
      "T","U","V","W","X","Y","Z",
      "a","b","c","d","e","f","g","h","i","j","k","m","n","o","p","q","r",
      "s","t","u","v","w","x","y","z" }

\* C8: decodeBase58BTC returns an invalid-character error and no bytes for
\* every string with a character outside the alphabet, at any position, and
\* no error for every string of alphabet characters.
AlphabetRejection ==
    op = "decodeBase58BTC"
        => IF \E i \in 1..Len(arg.text) : arg.text[i] \notin ClaimAlphabet
           THEN ret.err = ErrInvalidBase58Character /\ ret.bytes = << >>
           ELSE ret.err = << >>

\* decodeBase58BTC refused a text whose last character is the only bad one
AlphabetRejectionWitness ==
    /\ op = "decodeBase58BTC"
    /\ Len(arg.text) = 3
    /\ arg.text[1] = "z" /\ arg.text[2] = "1" /\ arg.text[3] \in {"0", "O", "I", "l"}
    /\ ret.err = ErrInvalidBase58Character

\* C9: whenever Decode returns without error, the key type is one of the
\* seven supported types and the key has exactly that type's fixed length.
DecodeSoundness ==
    (op \in {"Decode", "DecodeEncoded"} /\ ret.err = NoError)
        => /\ ret.keyType \in SupportedKeyTypes
           /\ Len(ret.keyBytes) = FixedSize(ret.keyType)
           /\ Len(ret.keyBytes) > 0

\* Decode accepted an identifier carrying a 49-byte P-384 key
DecodeSoundnessWitness ==
    /\ op = "Decode"
    /\ ret.err = NoError
    /\ ret.keyType = KeyTypeP384
    /\ Len(ret.keyBytes) = 49

\* C10: whenever Encode returns an error its string is empty, and whenever
\* Decode, Parse or GetKeyType returns an error the key type is the zero
\* value and the key bytes / DIDKey are nil, at whichever stage it fails.
NoPartialResults ==
    /\ (op \in {"Encode", "EncodeDecoded"} /\ Failed(ret.err))
           => ret.didKey = << >>
    /\ (op \in {"Decode", "DecodeEncoded"} /\ Failed(ret.err))
           => ret.keyType = "" /\ ret.keyBytes = << >>
    /\ (op = "Parse" /\ Failed(ret.err)) => ret.dk = << >>
    /\ (op = "GetKeyType" /\ Failed(ret.err)) => ret.keyType = ""

\* GetKeyType failed on the key size, after the tag was resolved to Ed25519
NoPartialResultsWitness ==
    /\ op = "GetKeyType"
    /\ arg.didKey = DIDKeyPrefix \o encodeMultibase(<< 237, 1 >> \o Fill(33, 0, 0, 255))
    /\ ret.err.Reason = ErrInvalidKeySize

\* identifiers of a key one byte short or one byte long behind the tag of
\* each supported type
WrongSizeIdentifiers ==
    { DIDKeyPrefix \o encodeMultibase(WireTag(t) \o Fill(FixedSize(t) + d, 0, 0, 255)) :
        t \in SupportedKeyTypes, d \in {-1, 1} }

RegistryTag(keyType) ==
    CASE keyType = "Ed25519"    -> 237
      [] keyType = "X25519"     -> 236
      [] keyType = "secp256k1"  -> 231
      [] keyType = "BLS12381G1" -> 234
      [] keyType = "BLS12381G2" -> 235
      [] keyType = "P-256"      -> 4608
      [] keyType = "P-384"      -> 4609

RegistryTypes ==
    { "Ed25519", "X25519", "secp256k1", "BLS12381G1", "BLS12381G2",
      "P-256", "P-384" }

\* C12: getMulticodecForKeyType and getKeyTypeForMulticodec are inverse to
\* each other over the seven supported types and their tags: each type maps
\* to its tag and back, distinct types have distinct tags, and every other
\* type or tag value gets an unsupported error, never a supported entry.
RegistryBijection ==
    /\ op = "getMulticodecForKeyType"
           => IF arg.keyType \in RegistryTypes
              THEN ret = [codec |-> U64(RegistryTag(arg.keyType)), err |-> NoError]
              ELSE ret.err.Reason = << "unsupported key type" >>
    /\ op = "getKeyTypeForReturnedMulticodec"
           => ret = [keyType |-> arg.keyType, err |-> NoError]
    /\ op = "getKeyTypeForMulticodec"
           => IF \E t \in RegistryTypes : arg.codec = U64(RegistryTag(t))
              THEN /\ ret.err = NoError
                   /\ ret.keyType \in RegistryTypes
                   /\ arg.codec = U64(RegistryTag(ret.keyType))
              ELSE /\ ret.keyType = ""
                   /\ ret.err.Reason = << "unsupported multicodec" >>
    /\ op = "getMulticodecForReturnedKeyType"
           => ret = [codec |-> arg.codec, err |-> NoError]
    /\ op = "getMulticodecForKeyType"
           => \A t1, t2 \in RegistryTypes :
                  t1 # t2 => getMulticodecForKeyType(t1).codec
                                 # getMulticodecForKeyType(t2).codec

\* the tag returned for P-384 was looked up again and gave P-384
RegistryBijectionWitness ==
    /\ op = "getKeyTypeForReturnedMulticodec"
    /\ arg.keyType = "P-384"
    /\ arg.codec = U64(4609)
    /\ ret.keyType = "P-384"

\* the base-58 alphabet: digits and letters in ASCII order without 0, O, I, l
RefAlphabet ==
    SelectSeq(<< "0","1","2","3","4","5","6","7","8","9",
                 "A","B","C","D","E","F","G","H","I","J","K","L","M",
                 "N","O","P","Q","R","S","T","U","V","W","X","Y","Z",
                 "a","b","c","d","e","f","g","h","i","j","k","l","m",
                 "n","o","p","q","r","s","t","u","v","w","x","y","z" >>,
              LAMBDA c : c \notin {"0", "O", "I", "l"})

RefDigit(c) == (CHOOSE i \in 1..Len(RefAlphabet) : RefAlphabet[i] = c) - 1

\* the primes between 32000 and 32767
RefPrimes == { p \in 32000..32767 : \A d \in 2..181 : p % d # 0 }

\* the number written by digits[lo+1..hi] in the given base, modulo p, and
\* base^(hi-lo) modulo p
RECURSIVE Residue(_, _, _, _, _)
Residue(digits, base, p, lo, hi) ==
    IF hi - lo <= 0 THEN [v |-> 0, w |-> 1]
    ELSE IF hi - lo = 1 THEN [v |-> digits[lo + 1] % p, w |-> base % p]
    ELSE LET mid   == (lo + hi) \div 2
             left  == Residue(digits, base, p, lo, mid)
             right == Residue(digits, base, p, mid, hi)
         IN  [v |-> (left.v * right.w + right.v) % p,
              w |-> (left.w * right.w) % p]

\* a big-endian byte sequence and a big-endian base-58 digit sequence write
\* the same number: both numbers are below the product of the primes (each
\* prime is above 2^14, a byte has 8 bits, a digit less than 6) and they
\* agree modulo every prime
SameNumber(bytes, digits) ==
    /\ 8 * Len(bytes) < 14 * Cardinality(RefPrimes)
    /\ 6 * Len(digits) < 14 * Cardinality(RefPrimes)
    /\ \A p \in RefPrimes :
           Residue(bytes, 256, p, 0, Len(bytes)).v
               = Residue(digits, 58, p, 0, Len(digits)).v

\* text is the base-58 form of data: one "1" per leading zero byte, then the
\* digits of the number the remaining bytes write, most significant first,
\* without a leading zero digit
IsBase58Of(text, data) ==
    LET zeros  == CountLeading(data, 0)
        number == SubSeq(data, zeros + 1, Len(data))
        digits == SubSeq(text, zeros + 1, Len(text))
    IN  /\ Len(text) >= zeros
        /\ \A i \in 1..Len(text) : \E j \in 1..58 : RefAlphabet[j] = text[i]
        /\ \A i \in 1..zeros : text[i] = "1"
        /\ (number = << >>) <=> (digits = << >>)
        /\ digits # << >> => digits[1] # "1"
        /\ SameNumber(number, [i \in 1..Len(digits) |-> RefDigit(digits[i])])

KnownIdentifier ==
    << "d", "i", "d", ":", "k", "e", "y", ":", "z", "6", "M", "k",
       "h", "a", "X", "g", "B", "Z", "D", "v", "o", "t", "D", "k",
       "L", "5", "2", "5", "7", "f", "a", "i", "z", "t", "i", "G",
       "i", "C", "2", "Q", "t", "K", "L", "G", "p", "b", "n", "n",
       "E", "G", "t", "a", "2", "d", "o", "K" >>

BufferIsolation ==
    /\ op \in {"Encode", "FromBytes"}
           => Content(arg.mem, arg.keyBytes) = arg.before
    /\ (op \in {"FromBytes", "WriteKeyBytes", "Bytes", "WriteBytes"}
            /\ ret.err = NoError)
           => /\ ret.dk[1].Key # arg.keyBytes
              /\ Content(arg.mem, ret.dk[1].Key) = arg.before
    /\ op \in {"Bytes", "WriteBytes"}
           => /\ ret.out # ret.dk[1].Key
              /\ op = "Bytes" => Content(arg.mem, ret.out) = arg.before

\* the caller wrote to its 96-byte slice after FromBytes, and then to the
\* slice Bytes() returned
BufferIsolationWitness ==
    /\ op = "WriteBytes"
    /\ Len(arg.before) = 96
    /\ Content(arg.mem, arg.keyBytes) # arg.before
    /\ Content(arg.mem, ret.out) # arg.before
    /\ Content(arg.mem, ret.dk[1].Key) = arg.before

\* C15: for every identifier "did:key:" + r with r non-empty and not
\* starting with "z", Decode fails with the invalid-multibase-prefix error,
\* whatever the other characters of r are; only an r that starts with "z"
\* gets to base-58 decoding.
MultibaseGate ==
    /\ ( /\ op = "Decode"
         /\ Len(arg.didKey) > 8
         /\ SubSeq(arg.didKey, 1, 8) = << "d","i","d",":","k","e","y",":" >>
         /\ arg.didKey[9] # "z" )
           => /\ ret.err.Reason = << "failed to decode multibase",
                                     "invalid multibase prefix" >>
              /\ ret.keyType = "" /\ ret.keyBytes = << >>
    /\ ( /\ op = "Decode"
         /\ Len(arg.didKey) > 8
         /\ SubSeq(arg.didKey, 1, 9) = << "d","i","d",":","k","e","y",":","z" >> )
           => ret.err.Reason # << "failed to decode multibase",
                                  "invalid multibase prefix" >>

\* Decode refused the base-58 text of a valid Ed25519 key behind an "m"
MultibaseGateWitness ==
    /\ op = "Decode"
    /\ Len(arg.didKey) > 40
    /\ SubSeq(arg.didKey, 1, 9) = << "d","i","d",":","k","e","y",":","m" >>
    /\ ret.err.Reason = << "failed to decode multibase", "invalid multibase prefix" >>

\* identifiers whose payload is one complete varint and nothing more: the
\* tag of each supported type, and the unknown tags 0x01, 0xee and 0x1202
TagOnlyIdentifiers ==
    { DIDKeyPrefix \o encodeMultibase(tag) :
        tag \in { WireTag(t) : t \in RegistryTypes }
                 \cup { << 1 >>, << 238, 1 >>, << 130, 36 >> } }

\* C16: for every identifier whose payload is exactly one complete varint
\* with nothing after it, Decode fails with the no-key-data-after-varint
\* error, for known and unknown tags alike, ahead of the unsupported-type
\* and invalid-key-size errors.
NoKeyDataStage ==
    (op = "Decode" /\ arg.didKey \in TagOnlyIdentifiers)
        => /\ Failed(ret.err)
           /\ ret.err.Reason = << "no key data after varint" >>

\* the varints of values outside the registry (0, 1, 0xee, 0x1202, 0x16d,
\* 2^64 - 1) and the varints, shortest or not, of the values inside it
UnknownTagVarints ==
    { << 0 >>, << 1 >>, << 238, 1 >>, << 130, 36 >>, << 237, 2 >>,
      [i \in 1..10 |-> IF i < 10 THEN 255 ELSE 1] }

SupportedTagVarints ==
    { << 237, 1 >>, << 236, 1 >>, << 231, 1 >>, << 234, 1 >>, << 235, 1 >>,
      << 128, 36 >>, << 129, 36 >>, << 237, 129, 0 >>, << 128, 164, 0 >> }

StartsWith(tags, payload) ==
    \E v \in tags : /\ Len(payload) >= Len(v)
                    /\ SubSeq(payload, 1, Len(v)) = v

\* the identifiers of the payloads that start with the varint of an unknown
\* tag followed by at least one byte, and of those that start with the
\* varint of a supported tag
UnknownTagIdentifiers ==
    { DIDKeyPrefix \o encodeMultibase(p) :
        p \in { q \in PayloadValues :
                  \E v \in UnknownTagVarints :
                      /\ Len(q) > Len(v)
                      /\ SubSeq(q, 1, Len(v)) = v } }

SupportedTagIdentifiers ==
    { DIDKeyPrefix \o encodeMultibase(p) :
        p \in { q \in PayloadValues : StartsWith(SupportedTagVarints, q) } }

\* C17: for every identifier whose payload starts with a well-formed varint
\* of a value outside the seven supported tags, followed by at least one
\* byte, Decode fails with the unsupported-type error however many bytes
\* follow; an invalid-key-size error is reported only behind a supported
\* tag.
TypeBeforeSize ==
    /\ (op = "Decode" /\ arg.didKey \in UnknownTagIdentifiers)
           => /\ ret.err = NewError("decode", << "unsupported multicodec" >>)
              /\ ret.keyType = "" /\ ret.keyBytes = << >>
    /\ (op = "Decode" /\ ret.err.Reason = << "invalid key size" >>)
           => arg.didKey \in SupportedTagIdentifiers

\* Decode refused the unknown tag 0x1202 followed by 33 bytes, the size of
\* a P-256 key
TypeBeforeSizeWitness ==
    /\ op = "Decode"
    /\ arg.didKey = DIDKeyPrefix \o encodeMultibase(<< 130, 36 >> \o Fill(33, 0, 0, 255))
    /\ ret.err.Reason = << "unsupported multicodec" >>

\* C18: for every 64-bit value v and every rest, every byte of
\* encodeMulticodec(v) but the last has the high bit set and the last has
\* it clear, and decodeMulticodec(encodeMulticodec(v) ++ rest) succeeds with
\* (v, len(encodeMulticodec(v))): the bytes behind the last byte of the
\* varint are not read, and the slice from the returned offset is rest.
VarintRoundTrip ==
    /\ op = "encodeMulticodec"
           => /\ Len(ret.bytes) >= 1
              /\ \A i \in 1..Len(ret.bytes) - 1 : ret.bytes[i] >= 128
              /\ ret.bytes[Len(ret.bytes)] < 128
    /\ op = "decodeEncodedMulticodec"
           => /\ ret.err = << >>
              /\ ret.value = arg.codec
              /\ ret.bytesRead = Len(arg.data) - Len(arg.rest)
              /\ SubSeq(arg.data, ret.bytesRead + 1, Len(arg.data)) = arg.rest

\* the ten bytes of 2^64 - 1 were read back in front of a continuation byte
VarintRoundTripWitness ==
    /\ op = "decodeEncodedMulticodec"
    /\ \A i \in 0..63 : arg.codec[i] = 1
    /\ arg.rest = << 128 >>
    /\ ret.bytesRead = 10
    /\ ret.value = arg.codec

\* the varint at the front of data, read group by group: whether a byte
\* with the high bit clear ends it, where, and the value bit each group
\* holds for each bit position
HasLastByte(data) == \E i \in 1..Len(data) : data[i] < 128

LastByte(data) ==
    CHOOSE i \in 1..Len(data) : data[i] < 128 /\ \A j \in 1..i - 1 : data[j] >= 128

GroupBit(data, k) ==
    IF k \div 7 + 1 <= LastByte(data)
    THEN ((data[k \div 7 + 1] % 128) \div Pow2(k % 7)) % 2
    ELSE 0

FitsIn64Bits(data) ==
    \A k \in 64..7 * LastByte(data) - 1 : GroupBit(data, k) = 0

\* C19: decodeMulticodec returns the overflow error for every input whose
\* 7-bit groups hold a value that does not fit in 64 bits (a 10-byte varint
\* whose tenth byte has value bits above bit 0 included), and an error (the
\* incomplete-varint one when fewer than ten bytes were given) for every
\* input that ends before a byte with the high bit clear; so every
\* successful result is the exact sum of the groups, no bit discarded.
VarintOverflowDetected ==
    op = "decodeMulticodec"
        => /\ (HasLastByte(arg.data) /\ ~FitsIn64Bits(arg.data))
                  => ret.err = << "multicodec value too large" >>
           /\ ~HasLastByte(arg.data) => ret.err # << >>
           /\ (~HasLastByte(arg.data) /\ Len(arg.data) \in 1..9)
                  => ret.err = << "incomplete varint" >>
           /\ ret.err = << >>
                  => /\ HasLastByte(arg.data)
                     /\ FitsIn64Bits(arg.data)
                     /\ ret.bytesRead = LastByte(arg.data)
                     /\ \A k \in 0..63 : ret.value[k] = GroupBit(arg.data, k)

\* how many elements equal to v the sequence s starts with
LeadingRun(s, v) ==
    Cardinality({ n \in 1..Len(s) : \A i \in 1..n : s[i] = v })

\* C20: for every non-empty byte sequence b with k leading zero bytes, b of
\* zero bytes only included, encodeBase58BTC(b) starts with exactly k "1"
\* characters; for every valid base-58 string s with k leading "1"
\* characters, s of "1"s only included, decodeBase58BTC(s) starts with
\* exactly k zero bytes.
LeadingZerosExact ==
    /\ (op = "encodeBase58BTC" /\ Len(arg.data) > 0)
           => LeadingRun(ret.text, "1") = LeadingRun(arg.data, 0)
    /\ (op = "decodeBase58BTC" /\ ret.err = << >>)
           => LeadingRun(ret.bytes, 0) = LeadingRun(arg.text, "1")

====
